---- MODULE Spec2Model ----
(***************************************************************************)
(* A model of PyKineMod/simulate.py: the Simulate engine.                  *)
(*                                                                         *)
(* The instance is a Python object, modelled as the function `self` from   *)
(* the attribute names that have been assigned to their values: reading a  *)
(* name outside DOMAIN self is Python's AttributeError.  The constructor   *)
(* is modelled statement by statement (pc names the next source line), the *)
(* three methods as one action each.                                       *)
(*                                                                         *)
(* Numbers are integers (a fixed-point reading of the floats), `/` is      *)
(* \div.  Arrays are records [nd, shape, v]: nd = 1 a vector (v a sequence *)
(* of numbers), nd = 2 a matrix (v a sequence of rows), nd = 0 Python's    *)
(* None.  The input data are drawn so that V(t) > 0 and the total mass     *)
(* stays non-zero: non-finite arithmetic is outside the modelled domain.   *)
(***************************************************************************)
EXTENDS Integers, Sequences, FiniteSets, TLC

VARIABLES
    args,   \* the constructor's arguments (never changed)
    self,   \* the instance's attributes: name -> value
    pc,     \* the constructor's position, then "ready" or "raised"
    err,    \* the exception __init__ raised, if any
    ret     \* the last method call: its arguments and its outcome

vars == <<args, self, pc, err, ret>>

(***************************************************************************)
(* Bounds.                                                                 *)
(***************************************************************************)
MaxDim == 2      \* every array dimension is in 1..MaxDim
MaxSteps == 2    \* a time grid has 1..MaxSteps points

Dims == 1..MaxDim

(***************************************************************************)
(* Arrays and numpy's operations on them.                                  *)
(***************************************************************************)
NoneArr == [nd |-> 0, shape |-> <<>>, v |-> <<>>]

Vec(v) == [nd |-> 1, shape |-> <<Len(v)>>, v |-> v]

Mat(rows, ncols) == [nd |-> 2, shape |-> <<Len(rows), ncols>>, v |-> rows]

IsNone(a) == a.nd = 0

RECURSIVE SumSeq(_)
SumSeq(s) == IF s = <<>> THEN 0 ELSE Head(s) + SumSeq(Tail(s))

\* A.T of a matrix
Transpose(A) ==
    Mat([j \in 1..A.shape[2] |-> [i \in 1..A.shape[1] |-> A.v[i][j]]], A.shape[1])

\* np.linalg.pinv of a matrix.  Every Mw of the model is a (possibly
\* rectangular) identity, which is a partial isometry: its Moore-Penrose
\* inverse is its transpose, of shape (columns, rows).
pinv(A) == Transpose(A)

\* whether numpy's A @ B is defined: A a matrix, B a matrix or a vector
MatMulOk(A, B) == A.nd = 2 /\ B.nd \in {1, 2} /\ A.shape[2] = B.shape[1]

\* A @ B: a matrix for a matrix B, a vector for a vector B
MatMul(A, B) ==
    IF B.nd = 1
    THEN Vec([i \in 1..A.shape[1] |->
                SumSeq([k \in 1..A.shape[2] |-> A.v[i][k] * B.v[k]])])
    ELSE Mat([i \in 1..A.shape[1] |-> [j \in 1..B.shape[2] |->
                SumSeq([k \in 1..A.shape[2] |-> A.v[i][k] * B.v[k][j]])]],
             B.shape[2])

\* np.sum of a vector
NpSum(a) == SumSeq(a.v)

\* np.reshape(a, (a.shape[0], 1)) of a vector
ReshapeColumn(a) == Mat([i \in 1..a.shape[1] |-> <<a.v[i]>>], 1)

(***************************************************************************)
(* The instance dictionary.                                                *)
(***************************************************************************)
NoAttrs == [x \in {} |-> 0]

Has(obj, name) == name \in DOMAIN obj

SetAttr(obj, name, val) ==
    [x \in DOMAIN obj \cup {name} |-> IF x = name THEN val ELSE obj[x]]

NoError == [kind |-> "none", line |-> 0, msg |-> <<>>]

Raise(kind, line, msg) == [kind |-> kind, line |-> line, msg |-> msg]

NoCall == [op |-> "none"]

(***************************************************************************)
(* The data the constructor is given.                                      *)
(***************************************************************************)
\* reaction i turns species i into species i+1
NData(r, s) ==
    Mat([i \in 1..r |-> [j \in 1..s |->
            IF j = i THEN -1 ELSE IF j = i + 1 THEN 1 ELSE 0]], s)

MwData(a, b) == Mat([i \in 1..a |-> [j \in 1..b |-> IF i = j THEN 1 ELSE 0]], b)

WinhatData(a, p) == Mat([i \in 1..a |-> [j \in 1..p |-> IF i = j THEN 2 ELSE 1]], p)

WinhatVector(a) == Vec([i \in 1..a |-> 1])

n0Data(s) == Vec([i \in 1..s |-> 12 + 4 * i])

\* the samples of an inlet-flow series with p streams
uinData(p) == Vec([k \in 1..p |-> k])

ArgSpace ==
    [ N      : {NData(r, s) : r \in Dims, s \in Dims},
      Mw     : {MwData(a, b) : a \in Dims, b \in Dims},
      V      : {Vec(<<2, 1>>)},
      Winhat : {NoneArr} \cup {WinhatVector(a) : a \in Dims}
                         \cup {WinhatData(a, p) : a \in Dims, p \in Dims},
      uin    : {NoneArr} \cup {uinData(p) : p \in Dims},
      uout   : {Vec(<<4>>)},
      n0     : {NoneArr} \cup {n0Data(s) : s \in Dims},
      config : {NoneArr} ]

(***************************************************************************)
(* DataTools (datatools.py is not among the sources): the containers the   *)
(* constructor calls.  Each stores its datum; the time series become       *)
(* interpolants, callable at any t.  A datum that is None is refused.      *)
(***************************************************************************)
\* add_stoichiometry_data: N has one row per reaction and one column per
\* species: lines 102-105 add N.T @ rate, one entry per column of N, to
\* Win @ uin(t) and to y, one entry per species.
add_stoichiometry_data(obj, N) ==
    SetAttr(SetAttr(SetAttr(obj, "N", N), "R", N.shape[1]), "S", N.shape[2])

add_molweight_data(obj, Mw) == SetAttr(obj, "Mw", Mw)

\* add_reactor_config: without a configuration bundle the four inputs are
\* used as given
add_reactor_config(V, Winhat, uin, uout, config) ==
    [V |-> V, Winhat |-> Winhat, uin |-> uin, uout |-> uout]

Interp(data) == [kind |-> "interp1d", data |-> data]

add_volume_data(obj, V) == SetAttr(obj, "V", Interp(V))

\* P is the number of columns of Winhat, 1 for a vector
add_Winhat_data(obj, Winhat) ==
    SetAttr(SetAttr(obj, "Winhat", Winhat), "P",
            IF Winhat.nd = 2 THEN Winhat.shape[2] ELSE 1)

add_uin_data(obj, uin) == SetAttr(obj, "uin", Interp(uin))

add_uout_data(obj, uout) == SetAttr(obj, "uout", Interp(uout))

add_n0_data(obj, n0) == SetAttr(obj, "n0", n0)

\* V(t): a scalar, linear in t from the first sample with the second as slope
EvalV(f, t) == f.data.v[1] + f.data.v[2] * t

\* uin(t): a vector with one entry per stream
EvalUin(f, t) == Vec([k \in 1..f.data.shape[1] |-> f.data.v[k] + t])

\* uout(t): a scalar
EvalUout(f, t) == f.data.v[1]

(***************************************************************************)
(* Simulate.__init__, lines 30-68.                                         *)
(***************************************************************************)
Fail(e) == /\ pc' = "raised"
           /\ err' = e

\* the check of line 30 left out
n0MissingUnchecked(a) == FALSE

\* line 30
n0Missing(a) == IsNone(a.n0)

\* lines 30-31
CheckN0 ==
    /\ pc = "l30"
    /\ IF n0Missing(args)
       THEN Fail(Raise("ValueError", 31, <<"n0 cannot be None">>)) /\ UNCHANGED self
       ELSE pc' = "l33" /\ UNCHANGED <<self, err>>
    /\ UNCHANGED <<args, ret>>

\* line 33
AddStoichiometry ==
    /\ pc = "l33"
    /\ self' = add_stoichiometry_data(self, args.N)
    /\ pc' = "l35"
    /\ UNCHANGED <<args, err, ret>>

\* line 36
MwMismatch(obj) == obj.Mw.shape[1] # obj.S

\* lines 35-40 with the check of line 36 left out
AddMolweightUnchecked ==
    /\ pc = "l35"
    /\ self' = add_molweight_data(self, args.Mw)
    /\ pc' = "l42"
    /\ UNCHANGED <<args, err, ret>>

\* lines 35-40
AddMolweight ==
    /\ pc = "l35"
    /\ self' = add_molweight_data(self, args.Mw)
    /\ IF MwMismatch(self')
       THEN Fail(Raise("ValueError", 37,
                       <<"Mw", self'.Mw.shape, self'.S, self'.S, self'.N.shape>>))
       ELSE pc' = "l42" /\ UNCHANGED err
    /\ UNCHANGED <<args, ret>>

\* lines 42-43
AddReactorConfig ==
    /\ pc = "l42"
    /\ LET c == add_reactor_config(args.V, args.Winhat, args.uin, args.uout, args.config)
       IN  self' = add_volume_data(self, c.V)
    /\ pc' = "l45"
    /\ UNCHANGED <<args, err, ret>>

\* line 46
WinhatMismatch(obj) == obj.Winhat.shape[1] # obj.S

\* lines 45-50
AddWinhat ==
    /\ pc = "l45"
    /\ LET Winhat == add_reactor_config(args.V, args.Winhat, args.uin, args.uout,
                                        args.config).Winhat
       IN  IF IsNone(Winhat)
           THEN Fail(Raise("DataError", 45, <<"Winhat">>)) /\ UNCHANGED self
           ELSE /\ self' = add_Winhat_data(self, Winhat)
                /\ IF WinhatMismatch(self')
                   THEN Fail(Raise("ValueError", 47,
                                   <<"Winhat", self'.Winhat.shape, self'.S, self'.P,
                                     self'.N.shape>>))
                   ELSE pc' = "l52" /\ UNCHANGED err
    /\ UNCHANGED <<args, ret>>

\* line 53
UinMismatch(obj) == EvalUin(obj.uin, 0).shape[1] # obj.P

\* lines 54-56: the message is built before the exception: it reads
\* self.Win.shape, and reading an attribute not yet assigned is an
\* AttributeError that replaces the ValueError
UinError(obj) ==
    IF Has(obj, "Win")
    THEN Raise("ValueError", 54, <<"uin", obj.uin.data.shape, obj.Win.shape>>)
    ELSE Raise("AttributeError", 55, <<"Win">>)

\* lines 52-56
AddUin ==
    /\ pc = "l52"
    /\ LET uin == add_reactor_config(args.V, args.Winhat, args.uin, args.uout,
                                     args.config).uin
       IN  IF IsNone(uin)
           THEN Fail(Raise("DataError", 52, <<"uin">>)) /\ UNCHANGED self
           ELSE /\ self' = add_uin_data(self, uin)
                /\ IF UinMismatch(self')
                   THEN Fail(UinError(self'))
                   ELSE pc' = "l58" /\ UNCHANGED err
    /\ UNCHANGED <<args, ret>>

\* line 58
AddUout ==
    /\ pc = "l58"
    /\ LET c == add_reactor_config(args.V, args.Winhat, args.uin, args.uout, args.config)
       IN  self' = add_uout_data(self, c.uout)
    /\ pc' = "l59"
    /\ UNCHANGED <<args, err, ret>>

\* line 60
n0Mismatch(obj) == obj.n0.shape[1] # obj.S

\* lines 59-63
AddN0 ==
    /\ pc = "l59"
    /\ IF IsNone(args.n0)
       THEN Fail(Raise("DataError", 59, <<"n0">>)) /\ UNCHANGED self
       ELSE /\ self' = add_n0_data(self, args.n0)
            /\ IF n0Mismatch(self')
               THEN Fail(Raise("ValueError", 61, <<"n0", self'.S, self'.n0.shape[1]>>))
               ELSE pc' = "l65" /\ UNCHANGED err
    /\ UNCHANGED <<args, ret>>

\* lines 65-67 with the reshape of lines 66-67 left out
DeriveWinNoReshape(obj) == MatMul(pinv(obj.Mw), obj.Winhat)

\* lines 65-67: Win, a one-dimensional product reshaped to a column
DeriveWin(obj) ==
    LET W == MatMul(pinv(obj.Mw), obj.Winhat)
    IN  IF Len(W.shape) = 1 THEN ReshapeColumn(W) ELSE W

\* lines 65-68: a matrix product whose inner dimensions differ raises
\* numpy's own ValueError
AssignWin ==
    /\ pc = "l65"
    /\ IF ~MatMulOk(pinv(self.Mw), self.Winhat)
       THEN /\ Fail(Raise("ValueError", 65, <<"matmul", self.Mw.shape, self.Winhat.shape>>))
            /\ UNCHANGED self
       ELSE LET withWin == SetAttr(self, "Win", DeriveWin(self))
            IN  IF MatMulOk(self.Mw, self.n0)
                THEN /\ self' = SetAttr(withWin, "m0", NpSum(MatMul(self.Mw, self.n0)))
                     /\ pc' = "ready"
                     /\ UNCHANGED err
                ELSE /\ self' = withWin
                     /\ Fail(Raise("ValueError", 68,
                                    <<"matmul", self.Mw.shape, self.n0.shape>>))
    /\ UNCHANGED <<args, ret>>

(***************************************************************************)
(* Rate laws (ratelawgen.py is not among the sources).  A definition is    *)
(* either a RateLaw object, whose callable is its attribute `function`, or *)
(* a bare callable; both take the concentrations and K=.                   *)
(***************************************************************************)
Callable(name) == [cls |-> "function", name |-> name]

RateLawObject(name) == [cls |-> "RateLaw", function |-> Callable(name)]

\* the two callables of the model, on a concentration vector c:
\* "first" is K * c[0] / 4, "last" is K * c[-1] / 4
CallRate(f, c, K) ==
    IF f.name = "first" THEN (K * c.v[1]) \div 4 ELSE (K * c.v[c.shape[1]]) \div 4

\* functools.partial(f, K=K)
partial(f, K) == [func |-> f, K |-> K]

\* a bound rate law called on c
CallBound(b, c) == CallRate(b.func, c, b.K)

\* the rate-law lists add_ratelaws is given: n definitions, alternately a
\* bare "last" and a RateLaw object around "first", the last one an object
RateLawList(n) ==
    [i \in 1..n |-> IF (n - i) % 2 = 0 THEN RateLawObject("first")
                                       ELSE Callable("last")]

KData(k) == [i \in 1..k |-> i]

(***************************************************************************)
(* Simulate.add_ratelaws, lines 79-84.                                     *)
(***************************************************************************)
\* lines 80-82 binding every rate law to the last entry of K
BindOneLastK(ratelaw, K, idx) ==
    IF ratelaw.cls = "RateLaw"
    THEN partial(ratelaw.function, K[Len(K)])
    ELSE partial(ratelaw, K[Len(K)])

\* lines 80-82: one element of the comprehension (idx counted from 1)
BindOne(ratelaw, K, idx) ==
    IF ratelaw.cls = "RateLaw"
    THEN partial(ratelaw.function, K[idx])
    ELSE partial(ratelaw, K[idx])

\* lines 79-84: the list, built in the order of ratelaws
BoundList(ratelaws, K) == [idx \in 1..Len(ratelaws) |-> BindOne(ratelaws[idx], K, idx)]

\* K[idx] of a K shorter than ratelaws is an IndexError, raised inside the
\* comprehension, before self.ratelaws is assigned
add_ratelaws ==
    /\ pc = "ready"
    /\ \E n \in 0..(MaxDim + 1), k \in 0..(MaxDim + 1) :
         LET ratelaws == RateLawList(n)
             K == KData(k)
         IN  /\ k \in {n - 1, n}
             /\ IF Len(K) < Len(ratelaws)
                THEN /\ ret' = [op |-> "add_ratelaws", ratelaws |-> ratelaws, K |-> K,
                                kind |-> "IndexError", line |-> 80]
                     /\ UNCHANGED self
                ELSE /\ ret' = [op |-> "add_ratelaws", ratelaws |-> ratelaws, K |-> K,
                                kind |-> "none", line |-> 0]
                     /\ self' = SetAttr(self, "ratelaws", BoundList(ratelaws, K))
    /\ UNCHANGED <<args, pc, err>>

(***************************************************************************)
(* Simulate.mole_balance, lines 98-106.                                    *)
(***************************************************************************)
\* numpy's broadcasting of two vectors: equal lengths, or one of length 1
BroadcastOk(a, b) == a.shape[1] = b.shape[1] \/ a.shape[1] = 1 \/ b.shape[1] = 1

At(a, i) == IF a.shape[1] = 1 THEN a.v[1] ELSE a.v[i]

BroadcastLen(a, b) == IF a.shape[1] >= b.shape[1] THEN a.shape[1] ELSE b.shape[1]

VecAdd(a, b) == Vec([i \in 1..BroadcastLen(a, b) |-> At(a, i) + At(b, i)])

VecSub(a, b) == Vec([i \in 1..BroadcastLen(a, b) |-> At(a, i) - At(b, i)])

VecScale(a, k) == Vec([i \in 1..a.shape[1] |-> a.v[i] * k])

VecDiv(a, k) == Vec([i \in 1..a.shape[1] |-> a.v[i] \div k])

Returned(val) == [kind |-> "none", line |-> 0, val |-> val]

Raised(kind, line) == [kind |-> kind, line |-> line, val |-> <<>>]

\* line 100 with the initial mass in place of the current one
MassInitial(obj, y) == obj.m0

\* line 100: the mass the outlet term divides by
Mass(obj, y) == NpSum(MatMul(obj.Mw, y))

\* lines 101-105, once rate and m are known
Balance(obj, y, t, rate, m) ==
    LET NT == Transpose(obj.N)
        uin == EvalUin(obj.uin, t)
    IN  IF ~MatMulOk(NT, rate) THEN Raised("ValueError", 102)
        ELSE IF ~MatMulOk(obj.Win, uin) THEN Raised("ValueError", 103)
        ELSE LET gen == VecScale(MatMul(NT, rate), EvalV(obj.V, t))
                 inlet == MatMul(obj.Win, uin)
                 outlet == VecDiv(VecScale(y, EvalUout(obj.uout, t)), m)
             IN  IF ~BroadcastOk(gen, inlet) THEN Raised("ValueError", 103)
                 ELSE IF ~BroadcastOk(VecAdd(gen, inlet), outlet)
                      THEN Raised("ValueError", 104)
                      ELSE Returned(VecSub(VecAdd(gen, inlet), outlet))

\* lines 98-106 on an engine whose rate laws default to the empty list
MoleBalanceDefaultLaws(obj, y, t) ==
    LET laws == IF Has(obj, "ratelaws") THEN obj.ratelaws ELSE <<>>
        c == VecDiv(y, EvalV(obj.V, t))
        rate == Vec([j \in 1..Len(laws) |-> CallBound(laws[j], c)])
    IN  IF ~MatMulOk(obj.Mw, y) THEN Raised("ValueError", 100)
        ELSE Balance(obj, y, t, rate, Mass(obj, y))

\* lines 98-106: what mole_balance(y, t) returns or raises
MoleBalance(obj, y, t) ==
    LET c == VecDiv(y, EvalV(obj.V, t))
    IN  IF ~Has(obj, "ratelaws") THEN Raised("AttributeError", 99)
        ELSE LET rate == Vec([j \in 1..Len(obj.ratelaws) |-> CallBound(obj.ratelaws[j], c)])
             IN  IF ~MatMulOk(obj.Mw, y) THEN Raised("ValueError", 100)
                 ELSE Balance(obj, y, t, rate, Mass(obj, y))

yData(l) == Vec([i \in 1..l |-> 6 + 2 * i])

\* mole_balance keeping the concentrations of its last call on the instance
mole_balanceCaching ==
    /\ pc = "ready"
    /\ \E l \in Dims, t \in {0, 1} :
         LET y == yData(l)
             r == MoleBalance(self, y, t)
         IN  /\ ret' = [op |-> "mole_balance", y |-> y, t |-> t,
                        kind |-> r.kind, line |-> r.line, val |-> r.val]
             /\ self' = SetAttr(self, "c", VecDiv(y, EvalV(self.V, t)))
    /\ UNCHANGED <<args, pc, err>>

\* a call of mole_balance from outside the integrator; it assigns nothing
mole_balance ==
    /\ pc = "ready"
    /\ \E l \in Dims, t \in {0, 1} :
         LET y == yData(l)
             r == MoleBalance(self, y, t)
         IN  ret' = [op |-> "mole_balance", y |-> y, t |-> t,
                     kind |-> r.kind, line |-> r.line, val |-> r.val]
    /\ UNCHANGED <<args, self, pc, err>>

(***************************************************************************)
(* The collaborators of run_simulation: scipy's odeint, numpy's sampler    *)
(* and extents.compute_matrices (extents.py is not among the sources).     *)
(***************************************************************************)
\* odeint(func, y0, time): the first row is y0; every further grid point
\* costs one evaluation of func at the row before it (an explicit Euler
\* step stands for the solver's stepping).  An exception of func ends the
\* integration; a grid of one point needs no evaluation.
RECURSIVE odeint(_, _, _, _)
odeint(obj, rows, time, k) ==
    IF k > Len(time) THEN [kind |-> "none", line |-> 0, sol |-> rows]
    ELSE LET r == MoleBalance(obj, Vec(rows[k - 1]), time[k - 1])
         IN  IF r.kind # "none" THEN [kind |-> r.kind, line |-> r.line, sol |-> <<>>]
             ELSE IF r.val.shape # <<Len(rows[1])>>
                  THEN [kind |-> "RuntimeError", line |-> 122, sol |-> <<>>]
                  ELSE odeint(obj,
                              Append(rows, [j \in 1..Len(rows[1]) |->
                                  rows[k - 1][j] + (time[k] - time[k - 1]) * r.val.v[j]]),
                              time, k + 1)

Max(a, b) == IF a >= b THEN a ELSE b

RECURSIVE MaxSeq(_)
MaxSeq(s) == IF Len(s) = 1 THEN s[1] ELSE Max(Head(s), MaxSeq(Tail(s)))

Sqrt(n) == CHOOSE r \in 0..n : r * r = n

\* np.random.multivariate_normal(mean, cov, size): row k is the mean plus
\* the draw z (alternating in sign along the rows) scaled by the square
\* roots of cov's diagonal
multivariate_normal(mean, cov, size, z) ==
    [k \in 1..size |-> [j \in 1..Len(mean) |->
        mean[j] + (IF k % 2 = 1 THEN z ELSE -z) * Sqrt(cov[j][j])]]

\* compute_matrices(N, Win, n0): q0T (1 x S), S0T (R x S), M0T (P x S)
compute_matrices(N, Win, n0) ==
    [q0T |-> Mat(<<[j \in 1..n0.shape[1] |-> 1]>>, n0.shape[1]),
     S0T |-> N,
     M0T |-> Transpose(Win)]

(***************************************************************************)
(* Simulate.run_simulation, lines 121-159.                                 *)
(***************************************************************************)
TimeGrids == {[i \in 1..n |-> i - 1] : n \in 1..MaxSteps}

Alphas == {0, 25}

\* lines 124-127 with a noise floor that does not scale with alpha
NoiseCovFloor(sol, alpha) ==
    LET nSpecies == Len(sol[1])
        colmax == [j \in 1..nSpecies |-> MaxSeq([k \in 1..Len(sol) |-> sol[k][j]])]
        noise_std == [i \in 1..nSpecies |-> [j \in 1..nSpecies |->
                         IF i = j THEN (alpha * colmax[j]) \div 100 + 1 ELSE 0]]
    IN  [i \in 1..nSpecies |-> [j \in 1..nSpecies |-> noise_std[i][j] * noise_std[i][j]]]

\* lines 124-127: the covariance, diagonal, from alpha and the column maxima
NoiseCov(sol, alpha) ==
    LET nSpecies == Len(sol[1])
        colmax == [j \in 1..nSpecies |-> MaxSeq([k \in 1..Len(sol) |-> sol[k][j]])]
        noise_std == [i \in 1..nSpecies |-> [j \in 1..nSpecies |->
                         IF i = j THEN (alpha * colmax[j]) \div 100 ELSE 0]]
    IN  [i \in 1..nSpecies |-> [j \in 1..nSpecies |-> noise_std[i][j] * noise_std[i][j]]]

\* lines 124-132: sol + noise
Noisy(sol, alpha, z) ==
    LET nSamples == Len(sol)
        nSpecies == Len(sol[1])
        noise == multivariate_normal([j \in 1..nSpecies |-> 0], NoiseCov(sol, alpha),
                                     nSamples, z)
    IN  [k \in 1..nSamples |-> [j \in 1..nSpecies |-> sol[k][j] + noise[k][j]]]

\* lines 134-136: one row per rate law, one column per time point
ReactionRate(obj, sol, time) ==
    [j \in 1..Len(obj.ratelaws) |-> [k \in 1..Len(time) |->
        CallBound(obj.ratelaws[j], VecDiv(Vec(sol[k]), EvalV(obj.V, time[k])))]]

\* line 138: ((N.T @ rate) * V(time)).T, defined when N.T @ rate is
FlowRate(obj, rate, time) ==
    [k \in 1..Len(time) |->
        VecScale(MatMul(Transpose(obj.N), Vec([j \in 1..Len(rate) |-> rate[j][k]])),
                 EvalV(obj.V, time[k])).v]

\* lines 144-148: sol @ M.T
Project(sol, M) == [k \in 1..Len(sol) |-> MatMul(M, Vec(sol[k])).v]

\* the attributes lines 132-148 assign, given the noisy trajectory
Derived(obj, noisy, time) ==
    LET rate == ReactionRate(obj, noisy, time)
        cm == compute_matrices(obj.N, obj.Win, obj.n0)
    IN  [sol |-> noisy,
         reaction_rate |-> [k \in 1..Len(time) |-> [j \in 1..Len(rate) |-> rate[j][k]]],
         flow_rate |-> FlowRate(obj, rate, time),
         xr |-> Project(noisy, cm.S0T),
         xin |-> Project(noisy, cm.M0T),
         lamda |-> Project(noisy, cm.q0T)]

\* lines 132-148 appending the new rows to the stored ones
StoreRunAppend(obj, d) ==
    LET old(name) == IF Has(obj, name) THEN obj[name] ELSE <<>>
    IN  SetAttr(SetAttr(SetAttr(SetAttr(SetAttr(SetAttr(obj,
            "_sol", old("_sol") \o d.sol),
            "_reaction_rate", old("_reaction_rate") \o d.reaction_rate),
            "_flow_rate", old("_flow_rate") \o d.flow_rate),
            "_xr", old("_xr") \o d.xr), "_xin", old("_xin") \o d.xin),
            "_lamda", old("_lamda") \o d.lamda)

\* lines 132-148: the assignments of a run that reaches the return
StoreRun(obj, d) ==
    SetAttr(SetAttr(SetAttr(SetAttr(SetAttr(SetAttr(obj,
        "_sol", d.sol), "_reaction_rate", d.reaction_rate), "_flow_rate", d.flow_rate),
        "_xr", d.xr), "_xin", d.xin), "_lamda", d.lamda)

\* lines 150-157
ResultMap(obj) ==
    [moles |-> obj._sol, reaction_rate |-> obj._reaction_rate,
     flow_rate |-> obj._flow_rate, xr |-> obj._xr, xin |-> obj._xin,
     xout |-> [k \in 1..Len(obj._lamda) |-> [j \in 1..Len(obj._lamda[k]) |->
                  1 - obj._lamda[k][j]]]]

\* the number of rows of the trajectory stored when a call begins
StoredRows(obj) == IF Has(obj, "_sol") THEN Len(obj._sol) ELSE 0

\* what is kept of a call of run_simulation: its arguments, the rows stored
\* before it, the exception it raised or the mapping it returned, and its
\* locals sol, noise_cov and the draw z of the sampler
RunRaised(obj, time, alpha, kind, line) ==
    [op |-> "run_simulation", time |-> time, alpha |-> alpha, before |-> StoredRows(obj),
     kind |-> kind, line |-> line, d |-> <<>>, sol |-> <<>>, cov |-> <<>>, z |-> 0]

\* lines 121-159.  An exception raised after line 132 leaves the engine
\* half-written; the session ends there (pc = "aborted").
run_simulation ==
    /\ pc = "ready"
    /\ \E time \in TimeGrids, alpha \in Alphas, z \in {-1, 1} :
         LET timed == SetAttr(self, "time", time)
             o == odeint(self, <<self.n0.v>>, time, 2)
         IN  IF o.kind # "none"
             THEN /\ self' = timed
                  /\ pc' = pc
                  /\ ret' = RunRaised(self, time, alpha, o.kind, o.line)
             ELSE LET noisy == Noisy(o.sol, alpha, z)
                      withSol == SetAttr(timed, "_sol", noisy)
                  IN  IF ~Has(self, "ratelaws")
                      THEN /\ self' = withSol
                           /\ pc' = "aborted"
                           /\ ret' = RunRaised(self, time, alpha, "AttributeError", 135)
                      ELSE IF Len(self.ratelaws) # self.N.shape[1]
                           THEN /\ self' = SetAttr(withSol, "_reaction_rate",
                                                   ReactionRate(self, noisy, time))
                                /\ pc' = "aborted"
                                /\ ret' = RunRaised(self, time, alpha, "ValueError", 138)
                           ELSE /\ self' = StoreRun(timed, Derived(self, noisy, time))
                                /\ pc' = pc
                                /\ ret' = [op |-> "run_simulation", time |-> time,
                                           alpha |-> alpha, before |-> StoredRows(self),
                                           kind |-> "none", line |-> 0,
                                           d |-> ResultMap(self'), sol |-> o.sol,
                                           cov |-> NoiseCov(o.sol, alpha), z |-> z]
    /\ UNCHANGED <<args, err>>

\* the arguments of a shape-consistent construction whose Winhat is a
\* vector (one inlet stream) or has two columns (two inlet streams)
ValidArgs ==
    {a \in ArgSpace : /\ ~IsNone(a.n0) /\ ~IsNone(a.uin)
                      /\ a.Mw.shape = <<a.N.shape[2], a.N.shape[2]>>
                      /\ \/ a.Winhat.shape = <<a.N.shape[2]>> /\ a.uin.shape = <<1>>
                         \/ a.Winhat.shape = <<a.N.shape[2], 2>> /\ a.uin.shape = <<2>>
                      /\ a.n0.shape = <<a.N.shape[2]>>}

InitWith(A) ==
    /\ args \in A
    /\ self = NoAttrs
    /\ pc = "l30"
    /\ err = NoError
    /\ ret = NoCall

Construct ==
    \/ CheckN0
    \/ AddStoichiometry
    \/ AddMolweight
    \/ AddReactorConfig
    \/ AddWinhat
    \/ AddUin
    \/ AddUout
    \/ AddN0
    \/ AssignWin

\* the constructor alone, on every combination of arguments
InitAny == InitWith(ArgSpace)

SpecConstruct == InitAny /\ [][Construct]_vars

\* the life of an engine whose construction succeeds
Init == InitWith(ValidArgs)

Next ==
    \/ Construct
    \/ add_ratelaws
    \/ mole_balance
    \/ run_simulation

Spec == Init /\ [][Next]_vars

(***************************************************************************)
(* What the claims speak of.                                               *)
(***************************************************************************)
\* S and P as the arguments give them
ArgS(a) == a.N.shape[2]

ArgP(a) == IF a.Winhat.nd = 2 THEN a.Winhat.shape[2] ELSE 1

AllPresent(a) == ~IsNone(a.n0) /\ ~IsNone(a.Winhat) /\ ~IsNone(a.uin)

\* the first field, in the order of the constructor, whose shape invariant
\* the arguments violate
FirstViolated(a) ==
    IF a.Mw.shape[1] # ArgS(a) THEN "Mw"
    ELSE IF a.Winhat.shape[1] # ArgS(a) THEN "Winhat"
    ELSE IF a.uin.shape[1] # ArgP(a) THEN "uin"
    ELSE IF a.n0.shape[1] # ArgS(a) THEN "n0"
    ELSE "none"

\* the shapes of the data model: N is R x S, Mw S x S, Winhat S x P or a
\* vector of length S, uin has P streams, n0 has S entries
ShapeConsistent(a) ==
    /\ AllPresent(a)
    /\ a.Mw.shape = <<ArgS(a), ArgS(a)>>
    /\ FirstViolated(a) = "none"

\* the attributes stored once the named field has been stored
UpToN == {"N", "R", "S"}

UpToMw == UpToN \cup {"Mw"}

UpToWinhat == UpToMw \cup {"V", "Winhat", "P"}

UpToUin == UpToWinhat \cup {"uin"}

UpToN0 == UpToUin \cup {"uout", "n0"}

Constructed == UpToN0 \cup {"Win", "m0"}

Trajectory == {"_sol", "_reaction_rate", "_flow_rate", "_xr", "_xin", "_lamda"}

IsCall(op) == ret.op = op

Succeeded(op) == ret.op = op /\ ret.kind = "none"

(***************************************************************************)
(* C1.  Constructing with n0 absent always fails with the error of line    *)
(* 31, whatever the other arguments are, and fails before any attribute    *)
(* has been stored on the instance.                                        *)
(***************************************************************************)
C1_AbsentN0FailsFirst ==
    (IsNone(args.n0) /\ pc # "l30") =>
        /\ pc = "raised"
        /\ err = Raise("ValueError", 31, <<"n0 cannot be None">>)
        /\ DOMAIN self = {}

\* n0 absent, Winhat absent too, and Mw of the wrong size
C1_Witness ==
    /\ pc = "raised"
    /\ IsNone(args.n0) /\ IsNone(args.Winhat)
    /\ args.Mw.shape[1] # ArgS(args)

(***************************************************************************)
(* C2.  With n0 present, each of the four shape violations (Mw, Winhat,    *)
(* uin, n0) makes construction fail with the same kind of error, the       *)
(* ValueError whose message carries the offending shapes.  The code does   *)
(* not do that for uin: building the message of lines 54-56 reads self.Win *)
(* before line 65 has assigned it.                                         *)
(***************************************************************************)
DimensionMismatch(e) == e.kind = "ValueError" /\ Len(e.msg) >= 3

C2_ShapeViolationIsDimensionMismatch ==
    (pc = "raised" /\ AllPresent(args) /\ FirstViolated(args) # "none") =>
        DimensionMismatch(err)

(***************************************************************************)
(* C3.  Validation is staged in the order N, Mw, V, Winhat, uin, uout, n0: *)
(* a field is stored only once the checks of the fields before it have     *)
(* passed, and when several shape invariants are violated the constructor  *)
(* raises at the check of the earliest violated field, with no later field *)
(* stored.  (Which exception the check of uin raises is C2's matter.)      *)
(***************************************************************************)
C3_Staged ==
    AllPresent(args) =>
      /\ Has(self, "V") => args.Mw.shape[1] = ArgS(args)
      /\ Has(self, "uin") => args.Winhat.shape[1] = ArgS(args)
      /\ Has(self, "uout") => args.uin.shape[1] = ArgP(args)
      /\ Has(self, "Win") => args.n0.shape[1] = ArgS(args)
      /\ (pc = "raised" /\ FirstViolated(args) = "Mw") =>
            err.line = 37 /\ DOMAIN self = UpToMw
      /\ (pc = "raised" /\ FirstViolated(args) = "Winhat") =>
            err.line = 47 /\ DOMAIN self = UpToWinhat
      /\ (pc = "raised" /\ FirstViolated(args) = "uin") =>
            err.line \in {54, 55} /\ DOMAIN self = UpToUin
      /\ (pc = "raised" /\ FirstViolated(args) = "n0") =>
            err.line = 61 /\ DOMAIN self = UpToN0
      /\ (pc = "ready") => FirstViolated(args) = "none"

\* Winhat, uin and n0 all violate their invariants: the error is Winhat's
C3_Witness ==
    /\ pc = "raised" /\ AllPresent(args)
    /\ err.line = 47
    /\ args.Winhat.shape[1] # ArgS(args)
    /\ args.uin.shape[1] # ArgP(args)
    /\ args.n0.shape[1] # ArgS(args)

(***************************************************************************)
(* C4.  For every shape-consistent input construction does not fail, and   *)
(* the engine it yields has Win of shape (S, P), two-dimensional also when *)
(* the product is a vector (Winhat a vector, P = 1); Win and m0 are        *)
(* assigned only after the four shape checks have passed.                  *)
(***************************************************************************)
C4_WinShape ==
    /\ ShapeConsistent(args) => pc # "raised"
    /\ (ShapeConsistent(args) /\ pc = "ready") =>
          /\ DOMAIN self = Constructed
          /\ self.Win.nd = 2
          /\ self.Win.shape = <<ArgS(args), ArgP(args)>>
          /\ Len(self.Win.v) = ArgS(args)
          /\ \A i \in 1..ArgS(args) : Len(self.Win.v[i]) = ArgP(args)
    /\ (Has(self, "Win") \/ Has(self, "m0")) =>
          /\ AllPresent(args) /\ FirstViolated(args) = "none"
          /\ UpToN0 \subseteq DOMAIN self

\* the product collapsed to one dimension and was reshaped
C4_Witness ==
    /\ pc = "ready"
    /\ args.Winhat.nd = 1
    /\ ArgS(args) > 1
    /\ self.Win.shape = <<ArgS(args), 1>>

(***************************************************************************)
(* C5.  With alpha = 0 a run is deterministic: the noise covariance is the *)
(* zero matrix, the moles returned are the integrated trajectory           *)
(* unchanged, and that trajectory is the one the integrator yields from    *)
(* the engine's data, its rate laws and the time grid alone, whatever was  *)
(* stored by earlier runs and whatever the sampler draws.                  *)
(***************************************************************************)
C5_AlphaZeroDeterministic ==
    (Succeeded("run_simulation") /\ ret.alpha = 0) =>
        /\ \A i \in 1..Len(ret.cov) : \A j \in 1..Len(ret.cov) : ret.cov[i][j] = 0
        /\ ret.d.moles = ret.sol
        /\ ret.d.moles = odeint(self, <<self.n0.v>>, ret.time, 2).sol
        /\ self._sol = ret.d.moles

\* a run with alpha = 0 over a grid the trajectory moves on, made on an
\* engine that held the trajectory of an earlier run
C5_Witness ==
    /\ Succeeded("run_simulation") /\ ret.alpha = 0
    /\ ret.before > 0
    /\ Len(ret.time) >= 2
    /\ ret.d.moles[2] # ret.d.moles[1]

(***************************************************************************)
(* C6.  mole_balance(y, t) is pure: a call leaves every attribute of the   *)
(* engine as it was (its data, the bound rate laws, the stored time grid   *)
(* and trajectory), and what it returns is what a call with the same       *)
(* (y, t) returns afterwards, at whatever time points the calls before it  *)
(* were made.                                                              *)
(***************************************************************************)
C6_MoleBalancePure ==
    [][ret'.op = "mole_balance" =>
          /\ self' = self
          /\ pc' = pc
          /\ LET again == MoleBalance(self', ret'.y, ret'.t)
             IN  ret'.kind = again.kind /\ ret'.val = again.val]_vars

\* a call at t = 0 on an engine that has integrated up to t = 1
C6_Witness ==
    /\ Succeeded("mole_balance")
    /\ ret.t = 0
    /\ Has(self, "_sol") /\ Len(self.time) >= 2

(***************************************************************************)
(* C7.  The formula of mole_balance, entry by entry.                       *)
(***************************************************************************)
\* N.T . r . V(t) + Win . uin(t) - uout(t) . y / m, m the current mass
RightHandSide(obj, y, t, i) ==
    LET Vt == EvalV(obj.V, t)
        r == [j \in 1..Len(obj.ratelaws) |->
                 CallRate(obj.ratelaws[j].func, VecDiv(y, Vt), obj.ratelaws[j].K)]
        uin == EvalUin(obj.uin, t).v
        m == SumSeq([a \in 1..obj.Mw.shape[1] |->
                 SumSeq([b \in 1..obj.Mw.shape[2] |-> obj.Mw.v[a][b] * y.v[b]])])
    IN  SumSeq([j \in 1..obj.N.shape[1] |-> obj.N.v[j][i] * r[j]]) * Vt
        + SumSeq([p \in 1..obj.Win.shape[2] |-> obj.Win.v[i][p] * uin[p]])
        - (EvalUout(obj.uout, t) * y.v[i]) \div m

IsRightHandSide(obj, y, t, val) ==
    /\ val.nd = 1
    /\ val.shape = y.shape
    /\ \A i \in 1..y.shape[1] : val.v[i] = RightHandSide(obj, y, t, i)

\* C7 as claimed: N has shape S x R for a state of length S and R bound
\* rate laws, and mole_balance returns the vector of length S
C7_Original ==
    (IsCall("mole_balance") /\ Has(self, "ratelaws")
        /\ self.N.shape = <<ret.y.shape[1], Len(self.ratelaws)>>) =>
        /\ ret.kind = "none"
        /\ IsRightHandSide(self, ret.y, ret.t, ret.val)

\* C7 as amended: N has shape R x S (a row per reaction, a column per
\* species) for a state of length S and R bound rate laws; then
\* mole_balance returns the vector of length S with entries
\* N.T . r . V(t) + Win . uin(t) - uout(t) . y / m, m = sum(Mw @ y)
C7_Amended ==
    (IsCall("mole_balance") /\ Has(self, "ratelaws")
        /\ self.N.shape = <<Len(self.ratelaws), ret.y.shape[1]>>) =>
        /\ ret.kind = "none"
        /\ IsRightHandSide(self, ret.y, ret.t, ret.val)

\* a call on an engine with more species than reactions, at t = 1
C7_Witness ==
    /\ Succeeded("mole_balance")
    /\ self.N.shape[1] < self.N.shape[2]
    /\ ret.y.shape[1] = self.N.shape[2]
    /\ ret.t = 1
    /\ ret.val.v # [i \in 1..ret.y.shape[1] |-> 0]

(***************************************************************************)
(* C8.  After a successful run the trajectory attributes and the mapping   *)
(* returned are those of that call: the stored grid is its grid, moles is  *)
(* its integrated trajectory plus its noise, the other attributes are      *)
(* computed from those moles, every one has as many rows as the grid has   *)
(* points, and nothing of an earlier run is left.                          *)
(***************************************************************************)
C8_RunReplaces ==
    Succeeded("run_simulation") =>
        /\ self.time = ret.time
        /\ Trajectory \subseteq DOMAIN self
        /\ \A f \in Trajectory : Len(self[f]) = Len(ret.time)
        /\ ret.sol = odeint(self, <<self.n0.v>>, ret.time, 2).sol
        /\ self._sol = Noisy(ret.sol, ret.alpha, ret.z)
        /\ \A k \in 1..Len(ret.time) :
              LET c == VecDiv(Vec(self._sol[k]), EvalV(self.V, ret.time[k]))
                  r == Vec([j \in 1..Len(self.ratelaws) |-> CallBound(self.ratelaws[j], c)])
              IN  /\ self._reaction_rate[k] = r.v
                  /\ self._flow_rate[k] =
                        VecScale(MatMul(Transpose(self.N), r), EvalV(self.V, ret.time[k])).v
                  /\ self._xr[k] = MatMul(self.N, Vec(self._sol[k])).v
                  /\ self._xin[k] = MatMul(Transpose(self.Win), Vec(self._sol[k])).v
                  /\ self._lamda[k] = <<SumSeq(self._sol[k])>>
                  /\ ret.d.xout[k] = <<1 - SumSeq(self._sol[k])>>
        /\ ret.d.moles = self._sol
        /\ ret.d.reaction_rate = self._reaction_rate
        /\ ret.d.flow_rate = self._flow_rate
        /\ ret.d.xr = self._xr
        /\ ret.d.xin = self._xin

\* a run over a shorter grid than the run before it
C8_Witness ==
    /\ Succeeded("run_simulation")
    /\ ret.before > Len(ret.time)
    /\ ret.alpha # 0

(***************************************************************************)
(* C9.  add_ratelaws does not compare the number of rate laws with the     *)
(* number of reactions of N: given a K with an entry for each, it succeeds *)
(* for any number and stores, in the order given, one bound callable per   *)
(* rate law, the i-th bound to K[i].  A number other than N's number of    *)
(* reactions shows only later, as the ValueError of a matrix product with  *)
(* N.T when mole_balance is called or a run is made.                       *)
(***************************************************************************)
CallableOf(ratelaw) == IF ratelaw.cls = "RateLaw" THEN ratelaw.function ELSE ratelaw

C10_Original ==
    /\ (~Has(self, "ratelaws") /\ (IsCall("mole_balance") \/ IsCall("run_simulation"))) =>
          ret.kind # "none"
    /\ (~Has(self, "ratelaws") /\ IsCall("run_simulation")) =>
          DOMAIN self = Constructed \cup {"time"}
    /\ Succeeded("run_simulation") => Has(self, "ratelaws")

\* C10 as amended: every such call fails with the AttributeError of the
\* missing rate laws; the failed run changes the stored time grid, writes
\* none of reaction rate, flow rate, xr, xin, lamda, and writes moles only
\* when the grid has a single point, for which the integrator returns
\* without evaluating mole_balance; a run returns a mapping only once rate
\* laws are bound
C10_Amended ==
    /\ (~Has(self, "ratelaws") /\ (IsCall("mole_balance") \/ IsCall("run_simulation"))) =>
          ret.kind = "AttributeError"
    /\ (~Has(self, "ratelaws") /\ IsCall("run_simulation")) =>
          /\ self.time = ret.time
          /\ IF Len(ret.time) = 1
             THEN DOMAIN self = Constructed \cup {"time", "_sol"}
             ELSE DOMAIN self = Constructed \cup {"time"}
    /\ Succeeded("run_simulation") => Has(self, "ratelaws")

\* a run over two points failed on an engine without rate laws
C10_Witness ==
    /\ ~Has(self, "ratelaws")
    /\ IsCall("run_simulation")
    /\ Len(ret.time) = 2
    /\ ret.kind = "AttributeError" /\ ret.line = 99
====
